---- MODULE Spec2Model ----
(***************************************************************************)
(* The collector of src/main.py as a state machine: one run of main() is   *)
(* prioritize -> collection loop (replies phase, mentions phase per        *)
(* account) -> orphan resolution -> truncation repair, over the four       *)
(* postgres tables of src/db.py (tweets, users, requests,                  *)
(* inaccessible_tweets).  The upstream API of src/fetch.py is the          *)
(* environment: every call either raises TwitterError or returns a list    *)
(* of statuses drawn from a small universe.                                *)
(*                                                                         *)
(* Time is counted in ticks; DAY ticks make a day.  The program constants  *)
(* 100 (statuses per fetch, ids per lookup batch) and 250 (lookup batches  *)
(* per run) are scaled down to MAX_FETCH_COUNT, BatchSize and MaxBatches.  *)
(***************************************************************************)
EXTENDS Integers, Sequences, FiniteSets, Bags, TLC

\* ------------------------------------------------------------------------
\* Bounds of the model
\* ------------------------------------------------------------------------
MaxRuns == 2            \* runs of main() explored
MaxQ == 2               \* API_LIMIT (SCREEN_NAMES_LIMIT) ranges over 0..MaxQ
MAX_FETCH_COUNT == 2    \* stands for fetch.MAX_FETCH_COUNT = 100
BatchSize == 2          \* stands for the 100 of toolz.partition_all(100, ..)
MaxBatches == 2         \* stands for the 250 of toolz.take(250, ..)
MaxFaults == 1          \* upstream calls that raise or carry a rejected payload
RunPeriod == 12         \* ticks between two starts of main() by the scheduler
MaxHistory == 3         \* request rows of the stores prioritize_by_uncollected is tried on
MaxSave == 3            \* length of the lists save_tweets is tried on

\* ------------------------------------------------------------------------
\* Program constants (time in ticks)
\* ------------------------------------------------------------------------
DAY == 100              \* 86400.0 seconds
EPOCH_1999 == -100000   \* datetime(1999, 1, 1)
StartClock == 95        \* the time of the first run

WEEK == 7 * DAY
EPS_INV == 10000 \div DAY   \* 0.0001 day is 1 / EPS_INV tick
ORPHAN_LIMIT == BatchSize * MaxBatches   \* LIMIT 25000 = 100 * 250

\* ------------------------------------------------------------------------
\* The upstream universe.  A status id has a fixed author, parent,
\* creation time and set of mentioned screen names; what varies between
\* two responses carrying the same id is the payload: the text ("full",
\* truncated "trunc", or "bad": a body the store rejects with DataError)
\* and the author's profile ("p1", "p2", or "bad").
\* ------------------------------------------------------------------------
NoId == 0
StatusIds == 1 .. 4

MONITORED_SCREEN_NAMES == <<"a", "b">>

Author(id) ==
  CASE id = 1 -> "cust" [] id = 2 -> "a" [] id = 3 -> "b" [] OTHER -> "a"

ReplyTo(id) ==
  CASE id = 2 -> 1 [] id = 3 -> 4 [] id = 5 -> 6 [] OTHER -> NoId

CreatedAt(id) ==
  CASE id = 1 -> 0 [] id = 2 -> 1 [] id = 3 -> 20 [] id = 5 -> 20 [] OTHER -> 0 - 50

Mentions(id) ==
  CASE id = 1 -> {"a", "b"} [] id = 2 -> {"cust"} [] id = 3 -> {"a"} [] OTHER -> {}

UserId(sn) ==
  CASE sn = "a" -> 1 [] sn = "b" -> 2 [] sn = "c" -> 3 [] OTHER -> 9

\* A twitter.Status as the API returns it; its user is StatusUser(t).
Status(id, text, profile) == [id |-> id, text |-> text, profile |-> profile]

\* The payloads the upstream may carry for an id.
Variants(id) ==
  CASE id = 1 -> {Status(1, "full", "p1"), Status(1, "full", "p2"),
                  Status(1, "full", "bad")}
    [] id = 2 -> {Status(2, "full", "p1"), Status(2, "trunc", "p1"),
                  Status(2, "bad", "p1")}
    [] OTHER  -> {Status(id, "full", "p1"), Status(id, "trunc", "p1")}

Statuses == UNION {Variants(id) : id \in StatusIds}

StatusUser(t) ==
  [id |-> UserId(Author(t.id)), screen_name |-> Author(t.id), profile |-> t.profile]

\* ------------------------------------------------------------------------
\* Helpers
\* ------------------------------------------------------------------------
Min(x, y) == IF x < y THEN x ELSE y

Max(x, y) == IF x > y THEN x ELSE y

SetMax(S) == CHOOSE x \in S : \A y \in S : y <= x

SetMin(S) == CHOOSE x \in S : \A y \in S : x <= y

Range(s) == {s[k] : k \in 1 .. Len(s)}

Take(s, n) == SubSeq(s, 1, Min(Max(n, 0), Len(s)))

\* All sequences over S of length at most n.
SeqsUpTo(S, n) == UNION {[1 .. k -> S] : k \in 0 .. n}

\* All orderings of a finite set (a SELECT without ORDER BY, a Python set).
Orderings(S) ==
  {s \in [1 .. Cardinality(S) -> S] : \A x \in S : \E k \in DOMAIN s : s[k] = x}

RECURSIVE Filter(_, _)
\* [x for x in s if x.id not in ids]
Filter(s, ids) ==
  IF s = <<>> THEN <<>>
  ELSE LET rest == Filter(Tail(s), ids)
       IN  IF Head(s).id \in ids THEN rest ELSE <<Head(s)>> \o rest

RECURSIVE UniqueBy(_, _, _)
\* toolz.unique(s, key): the first record of every key, in input order.
\* key[x] is the key of x; seen is the set of keys already yielded.
UniqueBy(s, key, seen) ==
  IF s = <<>> THEN <<>>
  ELSE IF key[Head(s)] \in seen THEN UniqueBy(Tail(s), key, seen)
       ELSE <<Head(s)>> \o UniqueBy(Tail(s), key, seen \cup {key[Head(s)]})

RECURSIVE partition_all(_, _)
\* toolz.partition_all(n, s): consecutive chunks of n, the last one shorter.
partition_all(n, s) ==
  IF s = <<>> THEN <<>>
  ELSE <<SubSeq(s, 1, Min(n, Len(s)))>> \o partition_all(n, SubSeq(s, n + 1, Len(s)))

\* ------------------------------------------------------------------------
\* The store (src/db.py).  A table is a bag of rows, so that a duplicate
\* row is representable; requests is kept in insertion order.
\* ------------------------------------------------------------------------
VARIABLES tweets, users, requests, inaccessible_tweets

dbVars == <<tweets, users, requests, inaccessible_tweets>>

AddRow(table, row) == table (+) SetToBag({row})

Rows(table) == BagToSet(table)

user_to_record(user) == [user_id |-> user.id, data |-> user]

tweet_to_record(tweet) ==
  [status_id |-> tweet.id, created_at |-> CreatedAt(tweet.id), data |-> tweet]

\* The store rejects the record with psycopg2.DataError.
MalformedUser(rec) == rec.data.profile = "bad"

\* A tweet's JSON embeds its author's profile.
MalformedTweet(rec) == rec.data.text = "bad" \/ rec.data.profile = "bad"

last_scraped_at(reqs, screen_name) ==
  LET mine == {reqs[k].created_at : k \in {j \in 1 .. Len(reqs) : reqs[j].screen_name = screen_name}}
  IN  IF mine = {} THEN EPOCH_1999 ELSE SetMax(mine)

get_existing_tweet_ids(table, tweet_ids) ==
  {r.status_id : r \in {x \in Rows(table) : x.status_id \in tweet_ids}}

RECURSIVE InsertUsers(_, _)
\* INSERT INTO users .. ON CONFLICT DO NOTHING, record by record.
InsertUsers(table, recs) ==
  IF recs = <<>> THEN table
  ELSE LET r == Head(recs)
           t == IF \E x \in Rows(table) : x.user_id = r.user_id
                THEN table ELSE AddRow(table, r)
       IN  InsertUsers(t, Tail(recs))

UserKey(u) == u.id

unique_users(user_list) ==
  UniqueBy(user_list, [u \in Range(user_list) |-> UserKey(u)], {})

\* save_users: the batch insert commits; a DataError rolls the open
\* transaction back and falls to the per-record loop, whose first
\* crs.execute(query, (user_id, data)) passes two arguments to the single
\* %s of the query and raises TypeError.
save_users(table, user_list) ==
  LET recs == [k \in 1 .. Len(unique_users(user_list)) |->
                 user_to_record(unique_users(user_list)[k])]
  IN  IF \E k \in DOMAIN recs : MalformedUser(recs[k])
      THEN [users |-> table, error |-> "TypeError", rolled_back |-> TRUE]
      ELSE [users |-> InsertUsers(table, recs), error |-> "none", rolled_back |-> FALSE]

OverwriteRow(table, rec) ==
  LET old == CHOOSE x \in Rows(table) : x.status_id = rec.status_id
      kept == [x \in Rows(table) \ {r \in Rows(table) : r.status_id = rec.status_id}
                 |-> table[x]]
  IN  IF \E x \in Rows(table) : x.status_id = rec.status_id
      THEN kept (+) SetToBag({[old EXCEPT !.data = rec.data]})
      ELSE AddRow(table, rec)

RECURSIVE InsertTweets_NoConflict(_, _, _)
\* Variant of InsertTweets: a plain INSERT into a table without a unique
\* status_id.
InsertTweets_NoConflict(table, recs, overwrite) ==
  IF recs = <<>> THEN table
  ELSE InsertTweets_NoConflict(AddRow(table, Head(recs)), Tail(recs), overwrite)

RECURSIVE InsertTweets(_, _, _)
\* INSERT INTO tweets .. ON CONFLICT DO NOTHING, or with overwrite
\* ON CONFLICT (status_id) DO UPDATE SET data = EXCLUDED.data.
InsertTweets(table, recs, overwrite) ==
  IF recs = <<>> THEN table
  ELSE LET r == Head(recs)
           t == IF \E x \in Rows(table) : x.status_id = r.status_id
                THEN (IF overwrite THEN OverwriteRow(table, r) ELSE table)
                ELSE AddRow(table, r)
       IN  InsertTweets(t, Tail(recs), overwrite)

TweetKey(t) == t.id

\* Variant of unique_tweets: deduplicates on the author instead of the id.
unique_tweets_by_author(tweet_list) ==
  UniqueBy(tweet_list, [t \in Range(tweet_list) |-> Author(t.id)], {})

unique_tweets(tweet_list) ==
  UniqueBy(tweet_list, [t \in Range(tweet_list) |-> TweetKey(t)], {})

\* save_tweets(tweets, overwrite): the users first (committed), then the
\* deduplicated tweets in one statement; a DataError of that statement is
\* not caught.
save_tweets(tw, us, tweet_list, overwrite) ==
  LET su == save_users(us, [k \in 1 .. Len(tweet_list) |-> StatusUser(tweet_list[k])])
      recs == [k \in 1 .. Len(unique_tweets(tweet_list)) |->
                 tweet_to_record(unique_tweets(tweet_list)[k])]
  IN  IF su.error # "none"
      THEN [tweets |-> tw, users |-> us, error |-> su.error, rolled_back |-> TRUE]
      ELSE IF \E k \in DOMAIN recs : MalformedTweet(recs[k])
      THEN [tweets |-> tw, users |-> su.users, error |-> "DataError", rolled_back |-> FALSE]
      ELSE [tweets |-> InsertTweets(tw, recs, overwrite), users |-> su.users,
            error |-> "none", rolled_back |-> FALSE]

save_request(reqs, screen_name, kind, at) ==
  Append(reqs, [screen_name |-> screen_name, kind |-> kind, created_at |-> at])

\* Variant of delete_tweets: the WHERE clause keeps the listed ids and drops
\* the others.
delete_tweets_others(table, ids) ==
  [x \in {r \in Rows(table) : r.status_id \in ids} |-> table[x]]

delete_tweets(table, ids) ==
  [x \in Rows(table) \ {r \in Rows(table) : r.status_id \in ids} |-> table[x]]

RECURSIVE save_inaccessible_tweet_ids(_, _)
\* INSERT INTO inaccessible_tweets (status_id) VALUES .. (no conflict
\* clause, and no commit of its own).
save_inaccessible_tweet_ids(table, ids) ==
  IF ids = {} THEN table
  ELSE LET x == CHOOSE y \in ids : TRUE
       IN  save_inaccessible_tweet_ids(AddRow(table, x), ids \ {x})

\* The rows of no_request_query before its LIMIT: the stored replies of the
\* last day whose parent is neither stored nor marked inaccessible.
OrphanRows(tw, marked, at) ==
  {r \in Rows(tw) :
     /\ ReplyTo(r.data.id) # NoId
     /\ ~ \E p \in Rows(tw) : p.data.id = ReplyTo(r.data.id)
     /\ ~ \E m \in Rows(marked) : m = ReplyTo(r.data.id)
     /\ r.created_at > at - DAY}

\* get_orphaned_tweets, as the set main() makes of it: LIMIT keeps any
\* ORPHAN_LIMIT of the rows.  The set of possible results.
get_orphaned_tweets(tw, marked, at) ==
  LET rows == OrphanRows(tw, marked, at)
      n == Min(ORPHAN_LIMIT, Cardinality(rows))
  IN  {{ReplyTo(r.data.id) : r \in R} : R \in {S \in SUBSET rows : Cardinality(S) = n}}

\* get_truncated_tweets: the ids of the rows flagged truncated, in any
\* row order.  The set of possible results.
get_truncated_tweets(tw) ==
  Orderings({r.status_id : r \in {x \in Rows(tw) : x.data.text = "trunc"}})

\* ------------------------------------------------------------------------
\* prioritize_by_uncollected (src/db.py).  missing_tweets is the fraction
\* num / den, or NULL for a screen name with requests and no tweet of the
\* last week (the RIGHT JOIN).
\* ------------------------------------------------------------------------
RequestTimes(reqs, sn) ==
  {reqs[k].created_at : k \in {j \in 1 .. Len(reqs) : reqs[j].screen_name = sn}}

max_created_at(reqs) == SetMax({reqs[k].created_at : k \in 1 .. Len(reqs)})

scrape_age(reqs, sn) == max_created_at(reqs) - SetMax(RequestTimes(reqs, sn))

\* The rows daily_counts groups under sn.
RecentTweets(tw, sn, at) ==
  {r \in Rows(tw) : Author(r.data.id) = sn /\ r.created_at > at - WEEK}

tweet_count(tw, sn, at) ==
  LET rs == RecentTweets(tw, sn, at)
  IN  BagCardinality([r \in rs |-> tw[r]])

tweet_period(tw, sn, at) ==
  LET ts == {r.created_at : r \in RecentTweets(tw, sn, at)}
  IN  SetMax(ts) - SetMin(ts)

Abs(x) == IF x < 0 THEN 0 - x ELSE x

\* abs(scrape_age * tweet_count / (tweet_period + 0.0001)) with the times
\* in days, which is scrape_age * tweet_count / (tweet_period + 1 / EPS_INV)
\* with the times in ticks, times a constant factor.
missing_tweets(tw, reqs, sn, at) ==
  IF RecentTweets(tw, sn, at) = {}
  THEN [null |-> TRUE, num |-> 0, den |-> 1]
  ELSE [null |-> FALSE,
        num |-> Abs(scrape_age(reqs, sn) * tweet_count(tw, sn, at) * EPS_INV),
        den |-> Abs(EPS_INV * tweet_period(tw, sn, at) + 1)]

\* ORDER BY 2 DESC puts x strictly before y (NULLs first).
SortsBefore(x, y) ==
  \/ x.null /\ ~ y.null
  \/ ~ x.null /\ ~ y.null /\ x.num * y.den > y.num * x.den

\* The possible results of the query: every screen name of requests once,
\* sorted by ORDER BY 2 DESC, rows of equal rank in any order.
ScorerRows(tw, reqs, at) ==
  LET sns == {reqs[k].screen_name : k \in 1 .. Len(reqs)}
  IN  {s \in Orderings(sns) :
         \A i, j \in DOMAIN s :
           i < j => ~ SortsBefore(missing_tweets(tw, reqs, s[j], at),
                                  missing_tweets(tw, reqs, s[i], at))}

\* Variant of NotFound: the names not found, last one first.
NotFound_Reversed(screen_names, found) ==
  LET nf == SelectSeq(screen_names, LAMBDA sn : sn \notin found)
  IN  [k \in 1 .. Len(nf) |-> nf[Len(nf) + 1 - k]]

NotFound(screen_names, found) ==
  SelectSeq(screen_names, LAMBDA sn : sn \notin found)

\* Variant of prioritize_by_uncollected: the names not found go to the end.
prioritize_scored_first(tw, reqs, screen_names, at) ==
  {priortized_sns \o NotFound(screen_names, Range(priortized_sns)) :
     priortized_sns \in ScorerRows(tw, reqs, at)}

\* The possible return values of prioritize_by_uncollected(screen_names).
prioritize_by_uncollected(tw, reqs, screen_names, at) ==
  {NotFound(screen_names, Range(priortized_sns)) \o priortized_sns :
     priortized_sns \in ScorerRows(tw, reqs, at)}

\* ------------------------------------------------------------------------
\* The upstream API (src/fetch.py).  A response either raises
\* TwitterError or carries a list of statuses.
\* ------------------------------------------------------------------------
Raised == [raise |-> TRUE, statuses |-> <<>>]

Returned(statuses) == [raise |-> FALSE, statuses |-> statuses]

VariantsOf(ids) == UNION {Variants(id) : id \in ids}

\* since.strftime('%Y-%m-%d'): the start of since's day.
SinceDate(since) == (since \div DAY) * DAY

\* GetUserTimeline(screen_name, count=MAX_FETCH_COUNT): statuses the
\* account wrote.
fetch_replies_from_user(screen_name) ==
  {Raised} \cup
  {Returned(s) : s \in SeqsUpTo(VariantsOf({id \in StatusIds : Author(id) = screen_name}),
                                MAX_FETCH_COUNT)}

\* GetSearch('@screen_name', since, count=MAX_FETCH_COUNT): statuses that
\* mention the account, created on or after since's date.
fetch_tweets_at_user(screen_name, since) ==
  {Raised} \cup
  {Returned(s) : s \in SeqsUpTo(VariantsOf({id \in StatusIds :
                                              /\ screen_name \in Mentions(id)
                                              /\ CreatedAt(id) >= SinceDate(since)}),
                                MAX_FETCH_COUNT)}

\* LookupStatuses(tweet_ids): for each requested id at most one status.
fetch_tweets_by_id(tweet_ids) ==
  {Raised} \cup
  {Returned([k \in 1 .. Len(SelectSeq(tweet_ids, LAMBDA x : x \in S)) |->
               f[SelectSeq(tweet_ids, LAMBDA x : x \in S)[k]]]) :
     S \in SUBSET Range(tweet_ids),
     f \in {g \in [Range(tweet_ids) -> VariantsOf(Range(tweet_ids))] :
              \A x \in Range(tweet_ids) : g[x] \in Variants(x)}}

\* ------------------------------------------------------------------------
\* main() (src/main.py)
\* ------------------------------------------------------------------------
VARIABLES
  now,                      \* the clock
  run,                      \* the number of the current run of main()
  API_LIMIT,                \* int(os.environ['SCREEN_NAMES_LIMIT'])
  pc,                       \* where main() stands
  error,                    \* the exception that ended the run, or "none"
  log,                      \* what the last step logged
  ranked,                   \* the value prioritize_by_uncollected returned
  screen_names_to_collect,
  idx,                      \* position of the collection loop
  last_scraped,             \* main()'s local last_scraped_at
  orphan_batches,
  truncate_batches,
  bidx,                     \* position of the current batch loop
  lookups,                  \* fetch_tweets_by_id calls issued in this run
  confirmed_missing,        \* ids an orphan lookup did not return, ever
  requests_before,          \* the number of request rows when the run began
  faults,                   \* faulty upstream responses so far
  twice,                    \* bookkeeping of the run-the-loop-twice experiment
  arg_tweets,               \* the list handed to a call of save_tweets on its own
  arg_overwrite             \* the overwrite flag of that call

ctlVars == <<now, run, API_LIMIT, pc, error, log, ranked, screen_names_to_collect, idx,
             last_scraped, orphan_batches, truncate_batches, bidx, lookups,
             confirmed_missing, requests_before>>

argVars == <<arg_tweets, arg_overwrite>>

vars == <<dbVars, ctlVars, faults, twice, argVars>>

StatusIdsOf(statuses) == {statuses[k].id : k \in 1 .. Len(statuses)}

\* What a step leaves in the log: its message and the numbers it reports
\* (statuses fetched, tweets handed to save_tweets, ids found
\* inaccessible).  Beside them: raised tells that the step's upstream call
\* raised TwitterError, dup that the fetched list carried an id twice, and
\* looked_up is the list a batch lookup returned.
Log(msg) ==
  [msg |-> msg, raised |-> FALSE, fetched |-> 0, saving |-> 0, missing |-> 0,
   dup |-> FALSE, looked_up |-> <<>>]

LogRaised(msg) == [Log(msg) EXCEPT !.raised = TRUE]

LogSave(msg, statuses, saving, missing) ==
  [msg |-> msg, raised |-> FALSE, fetched |-> Len(statuses), saving |-> Len(saving),
   missing |-> Cardinality(missing),
   dup |-> Len(statuses) > Cardinality(StatusIdsOf(statuses)), looked_up |-> <<>>]

LogLookup(msg, statuses, missing) ==
  [LogSave(msg, statuses, statuses, missing) EXCEPT !.looked_up = statuses]

Init ==
  /\ tweets = EmptyBag
  /\ users = EmptyBag
  /\ requests = <<>>
  /\ inaccessible_tweets = EmptyBag
  /\ now = StartClock
  /\ run = 1
  /\ API_LIMIT \in 0 .. MaxQ
  /\ pc = "start"
  /\ error = "none"
  /\ log = Log("Starting twitter scrape...")
  /\ ranked = <<>>
  /\ screen_names_to_collect = <<>>
  /\ idx = 1
  /\ last_scraped = EPOCH_1999
  /\ orphan_batches = <<>>
  /\ truncate_batches = <<>>
  /\ bidx = 1
  /\ lookups = 0
  /\ confirmed_missing = {}
  /\ requests_before = Len(requests)
  /\ faults = 0
  /\ twice = [pass |-> 0, rec |-> <<>>, snap |-> <<>>]
  /\ arg_tweets = <<>>
  /\ arg_overwrite = FALSE

\* Variant of Select: the slice runs one entry too far.
Select_OffByOne(ranking, limit) == Take(ranking, limit + 1)

\* main.py 30: ranking[:API_LIMIT]
Select(ranking, limit) == Take(ranking, limit)

\* main.py 28-31: rank the monitored screen names and cut at the quota.
Prioritize ==
  /\ pc = "start"
  /\ \E r \in prioritize_by_uncollected(tweets, requests, MONITORED_SCREEN_NAMES, now) :
       /\ ranked' = r
       /\ screen_names_to_collect' = Select(r, API_LIMIT)
  /\ idx' = 1
  /\ pc' = IF screen_names_to_collect' = <<>> THEN "orphans" ELSE "replies"
  /\ log' = Log("Collecting the following screen names")
  /\ now' = now + 1
  /\ UNCHANGED <<dbVars, run, API_LIMIT, error, last_scraped, orphan_batches,
                 truncate_batches, bidx, lookups, confirmed_missing,
                 requests_before>>

\* Variant of clean_sn: the loop walks the list from its end.
clean_sn_backwards ==
  screen_names_to_collect[Len(screen_names_to_collect) + 1 - idx]

\* main.py 33-34: the screen name the loop stands at.
clean_sn == screen_names_to_collect[idx]

\* Variant of StorePhase: the request is recorded only when there is a new
\* tweet to save.
StorePhase_SkipsEmpty(statuses, screen_name, kind, next_pc, msg) ==
  LET old_tweet_ids == get_existing_tweet_ids(tweets, StatusIdsOf(statuses))
      new_tweets == Filter(statuses, old_tweet_ids)
      saved == save_tweets(tweets, users, new_tweets, FALSE)
  IN  /\ requests' = IF new_tweets = <<>> THEN requests
                     ELSE save_request(requests, screen_name, kind, now)
      /\ tweets' = saved.tweets
      /\ users' = saved.users
      /\ error' = saved.error
      /\ pc' = IF saved.error = "none" THEN next_pc ELSE "crashed"
      /\ log' = LogSave(msg, statuses, new_tweets, {})
      /\ UNCHANGED inaccessible_tweets

\* main.py 41-46: the body of a phase's try block after its fetch returned.
StorePhase(statuses, screen_name, kind, next_pc, msg) ==
  LET old_tweet_ids == get_existing_tweet_ids(tweets, StatusIdsOf(statuses))
      new_tweets == Filter(statuses, old_tweet_ids)
      saved == save_tweets(tweets, users, new_tweets, FALSE)
  IN  /\ requests' = save_request(requests, screen_name, kind, now)
      /\ tweets' = saved.tweets
      /\ users' = saved.users
      /\ error' = saved.error
      /\ pc' = IF saved.error = "none" THEN next_pc ELSE "crashed"
      /\ log' = LogSave(msg, statuses, new_tweets, {})
      /\ UNCHANGED inaccessible_tweets

\* main.py 33, 65: the loop goes to the next screen name, or ends.
AfterAts == IF idx < Len(screen_names_to_collect) THEN "replies" ELSE "orphans"

\* Variant of RepliesFailed: one try block around both phases, so that a
\* failed replies fetch skips the mentions phase.
RepliesFailed_SkipsAccount ==
  /\ pc' = AfterAts
  /\ idx' = idx + 1
  /\ log' = LogRaised("Failed to fetch replies")
  /\ UNCHANGED <<dbVars, error>>

\* main.py 48-50: the handler of a TwitterError of the replies phase.
RepliesFailed ==
  /\ pc' = "ats"
  /\ idx' = idx
  /\ log' = LogRaised("Failed to fetch replies")
  /\ UNCHANGED <<dbVars, error>>

\* Variant of ReplyPhase: last_scraped_at is read after the phase has saved
\* its request.
ReplyPhase_LateLookup(resp) ==
  /\ pc = "replies"
  /\ IF resp.raise
     THEN RepliesFailed
     ELSE /\ StorePhase(resp.statuses, clean_sn, "get_replies", "ats",
                        "Saving replies request...")
          /\ idx' = idx
  /\ last_scraped' = last_scraped_at(requests', clean_sn)
  /\ now' = now + 1
  /\ UNCHANGED <<run, API_LIMIT, ranked, screen_names_to_collect, orphan_batches,
                 truncate_batches, bidx, lookups, confirmed_missing,
                 requests_before>>

\* main.py 34-50: the top of the loop body and the replies phase.
ReplyPhase(resp) ==
  /\ pc = "replies"
  /\ last_scraped' = last_scraped_at(requests, clean_sn)
  /\ IF resp.raise
     THEN RepliesFailed
     ELSE /\ StorePhase(resp.statuses, clean_sn, "get_replies", "ats",
                        "Saving replies request...")
          /\ idx' = idx
  /\ now' = now + 1
  /\ UNCHANGED <<run, API_LIMIT, ranked, screen_names_to_collect, orphan_batches,
                 truncate_batches, bidx, lookups, confirmed_missing,
                 requests_before>>

\* Variant of AtsFailed: the handler records a request for the failed fetch.
AtsFailed_Audited ==
  /\ pc' = AfterAts
  /\ log' = LogRaised("Failed to fetch tweets at")
  /\ requests' = save_request(requests, clean_sn, "get_ats", now)
  /\ UNCHANGED <<tweets, users, inaccessible_tweets, error>>

\* main.py 61-63: the handler of a TwitterError of the mentions phase.
AtsFailed ==
  /\ pc' = AfterAts
  /\ log' = LogRaised("Failed to fetch tweets at")
  /\ UNCHANGED <<dbVars, error>>

\* main.py 52-65: the mentions phase and the end of the loop body.
AtsPhase(resp) ==
  /\ pc = "ats"
  /\ IF resp.raise
     THEN AtsFailed
     ELSE StorePhase(resp.statuses, clean_sn, "get_ats", AfterAts,
                     "Saving ats request...")
  /\ idx' = IF pc' = "crashed" THEN idx ELSE idx + 1
  /\ now' = now + 1
  /\ UNCHANGED <<run, API_LIMIT, ranked, screen_names_to_collect, last_scraped,
                 orphan_batches, truncate_batches, bidx, lookups, confirmed_missing,
                 requests_before>>

\* main.py 67-69: the candidate parents, batched.
GetOrphans ==
  /\ pc = "orphans"
  /\ \E orphaned_tweet_ids \in get_orphaned_tweets(tweets, inaccessible_tweets, now) :
       \E order \in Orderings(orphaned_tweet_ids) :
         orphan_batches' = Take(partition_all(BatchSize, order), MaxBatches)
  /\ bidx' = 1
  /\ pc' = "orphan_loop"
  /\ log' = Log("Fetching orphaned tweets...")
  /\ now' = now + 1
  /\ UNCHANGED <<dbVars, run, API_LIMIT, error, ranked, screen_names_to_collect, idx,
                 last_scraped, truncate_batches, lookups, confirmed_missing,
                 requests_before>>

\* Variant of Inaccessible: every id of the batch counts as not returned.
Inaccessible_WholeBatch(tweet_ids, statuses) == Range(tweet_ids)

\* main.py 74: {*map(int, tweet_ids)}.difference({int(t.id) for t in tweets})
Inaccessible(tweet_ids, statuses) == Range(tweet_ids) \ StatusIdsOf(statuses)

\* main.py 71-78: one orphan batch.  The fetch is outside any try block.
\* The markers are inserted without a commit; the commit (or rollback) of
\* the save_users that follows decides them.
OrphanBatch(resp) ==
  /\ pc = "orphan_loop"
  /\ bidx <= Len(orphan_batches)
  /\ lookups' = lookups + 1
  /\ IF resp.raise
     THEN /\ pc' = "crashed"
          /\ error' = "TwitterError"
          /\ log' = LogRaised("Fetching orphans from twitter...")
          /\ UNCHANGED <<dbVars, bidx, confirmed_missing>>
     ELSE LET inaccessible == Inaccessible(orphan_batches[bidx], resp.statuses)
              marked == save_inaccessible_tweet_ids(inaccessible_tweets, inaccessible)
              saved == save_tweets(tweets, users, resp.statuses, FALSE)
          IN  /\ inaccessible_tweets' =
                   IF saved.rolled_back THEN inaccessible_tweets ELSE marked
              /\ tweets' = saved.tweets
              /\ users' = saved.users
              /\ error' = saved.error
              /\ pc' = IF saved.error = "none" THEN "orphan_loop" ELSE "crashed"
              /\ bidx' = IF saved.error = "none" THEN bidx + 1 ELSE bidx
              /\ confirmed_missing' = confirmed_missing \cup inaccessible
              /\ log' = LogLookup("Saving inaccessible tweets...", resp.statuses,
                                   inaccessible)
              /\ UNCHANGED requests
  /\ now' = now + 1
  /\ UNCHANGED <<run, API_LIMIT, ranked, screen_names_to_collect, idx, last_scraped,
                 orphan_batches, truncate_batches, requests_before>>

\* Variant of remaining_fetches: the repair phase has a budget of its own.
remaining_fetches_own_budget == MaxBatches

\* main.py 82
remaining_fetches == MaxBatches - Len(orphan_batches)

\* main.py 80-83: the truncated tweets, batched within what is left of the
\* lookup budget.
GetTruncated ==
  /\ pc = "orphan_loop"
  /\ bidx > Len(orphan_batches)
  /\ \E truncated_tweets \in get_truncated_tweets(tweets) :
       truncate_batches' = Take(partition_all(BatchSize, truncated_tweets), remaining_fetches)
  /\ bidx' = 1
  /\ pc' = "truncate_loop"
  /\ log' = Log("Found truncated tweets that need re-fetching.")
  /\ now' = now + 1
  /\ UNCHANGED <<dbVars, run, API_LIMIT, error, ranked, screen_names_to_collect, idx,
                 last_scraped, orphan_batches, lookups, confirmed_missing,
                 requests_before>>

\* Variant of TruncateFailed: no try block around the repair loop.
TruncateFailed_Uncaught ==
  /\ pc' = "crashed"
  /\ error' = "TwitterError"
  /\ log' = LogRaised("Fetching truncated tweets...")
  /\ UNCHANGED <<dbVars, bidx>>

\* main.py 99-101: the handler of a TwitterError raised in the repair loop.
TruncateFailed ==
  /\ pc' = "done"
  /\ log' = LogRaised("Failed to fetch truncated tweets.")
  /\ UNCHANGED <<dbVars, error, bidx>>

\* main.py 85-101: one repair batch.
TruncateBatch(resp) ==
  /\ pc = "truncate_loop"
  /\ bidx <= Len(truncate_batches)
  /\ lookups' = lookups + 1
  /\ IF resp.raise
     THEN TruncateFailed
     ELSE LET inaccessible == Inaccessible(truncate_batches[bidx], resp.statuses)
              kept == IF inaccessible # {} THEN delete_tweets(tweets, inaccessible)
                      ELSE tweets
              saved == IF resp.statuses # <<>>
                       THEN save_tweets(kept, users, resp.statuses, TRUE)
                       ELSE [tweets |-> kept, users |-> users, error |-> "none",
                             rolled_back |-> FALSE]
          IN  /\ tweets' = saved.tweets
              /\ users' = saved.users
              /\ error' = saved.error
              /\ pc' = IF saved.error = "none" THEN "truncate_loop" ELSE "crashed"
              /\ bidx' = IF saved.error = "none" THEN bidx + 1 ELSE bidx
              /\ log' = LogLookup(IF resp.statuses # <<>> THEN "Saving tweets..."
                                   ELSE "No tweetse to save.",
                                   resp.statuses, inaccessible)
              /\ UNCHANGED <<requests, inaccessible_tweets>>
  /\ now' = now + 1
  /\ UNCHANGED <<run, API_LIMIT, ranked, screen_names_to_collect, idx, last_scraped,
                 orphan_batches, truncate_batches, confirmed_missing, requests_before>>

\* main.py 103: the repair loop ran out of batches.
Finish ==
  /\ pc = "truncate_loop"
  /\ bidx > Len(truncate_batches)
  /\ pc' = "done"
  /\ log' = Log("Done!")
  /\ now' = now + 1
  /\ orphan_batches' = <<>>
  /\ truncate_batches' = <<>>
  /\ bidx' = 1
  /\ UNCHANGED <<dbVars, run, API_LIMIT, error, ranked, screen_names_to_collect, idx,
                 last_scraped, lookups, confirmed_missing, requests_before>>

\* The scheduler starts main() again, whether the last run ended or died.
NextRun ==
  /\ pc \in {"done", "crashed"}
  /\ run < MaxRuns
  /\ run' = run + 1
  /\ pc' = "start"
  /\ error' = "none"
  /\ log' = Log("Starting twitter scrape...")
  /\ ranked' = <<>>
  /\ screen_names_to_collect' = <<>>
  /\ idx' = 1
  /\ last_scraped' = EPOCH_1999
  /\ orphan_batches' = <<>>
  /\ truncate_batches' = <<>>
  /\ bidx' = 1
  /\ lookups' = 0
  /\ requests_before' = Len(requests)
  /\ now' = Max(now + 1, StartClock + run * RunPeriod)
  /\ UNCHANGED <<dbVars, API_LIMIT, confirmed_missing>>

\* ------------------------------------------------------------------------
\* The specification: runs of main() against any upstream.
\* ------------------------------------------------------------------------
\* The upstream raised, or returned a payload the store rejects.
Faulty(resp) ==
  \/ resp.raise
  \/ \E k \in DOMAIN resp.statuses :
       resp.statuses[k].text = "bad" \/ resp.statuses[k].profile = "bad"

\* The environment answers with resp, within the budget of faults.
Answer(resp) ==
  /\ Faulty(resp) => faults < MaxFaults
  /\ faults' = IF Faulty(resp) THEN faults + 1 ELSE faults

Replies ==
  /\ pc = "replies"
  /\ \E resp \in fetch_replies_from_user(clean_sn) :
       Answer(resp) /\ ReplyPhase(resp)
  /\ UNCHANGED <<twice, argVars>>

Ats ==
  /\ pc = "ats"
  /\ \E resp \in fetch_tweets_at_user(clean_sn, last_scraped) :
       Answer(resp) /\ AtsPhase(resp)
  /\ UNCHANGED <<twice, argVars>>

Orphans ==
  /\ pc = "orphan_loop"
  /\ bidx <= Len(orphan_batches)
  /\ \E resp \in fetch_tweets_by_id(orphan_batches[bidx]) :
       Answer(resp) /\ OrphanBatch(resp)
  /\ UNCHANGED <<twice, argVars>>

Truncated ==
  /\ pc = "truncate_loop"
  /\ bidx <= Len(truncate_batches)
  /\ \E resp \in fetch_tweets_by_id(truncate_batches[bidx]) :
       Answer(resp) /\ TruncateBatch(resp)
  /\ UNCHANGED <<twice, argVars>>

Next ==
  \/ Prioritize /\ UNCHANGED <<faults, twice, argVars>>
  \/ Replies
  \/ Ats
  \/ GetOrphans /\ UNCHANGED <<faults, twice, argVars>>
  \/ Orphans
  \/ GetTruncated /\ UNCHANGED <<faults, twice, argVars>>
  \/ Truncated
  \/ Finish /\ UNCHANGED <<faults, twice, argVars>>
  \/ NextRun /\ UNCHANGED <<faults, twice, argVars>>

Spec == Init /\ [][Next]_vars

\* ------------------------------------------------------------------------
\* The collection loop run twice against the same upstream responses:
\* pass 1 records every response it gets, pass 2 replays them to the same
\* loop over the same screen names.  twice.snap is the store between the
\* two passes.
\* ------------------------------------------------------------------------
SeedTweets ==
  SetToBag({tweet_to_record(Status(1, "full", "p1")), tweet_to_record(Status(2, "trunc", "p1"))})

SeedUsers ==
  SetToBag({user_to_record(StatusUser(Status(1, "full", "p1"))),
            user_to_record(StatusUser(Status(2, "trunc", "p1")))})

SeedRequests ==
  save_request(save_request(<<>>, "a", "get_replies", StartClock - 5),
               "a", "get_ats", StartClock - 4)

\* The store before the first pass: empty, or what an earlier run left.
InitTwice ==
  /\ \/ tweets = EmptyBag /\ users = EmptyBag /\ requests = <<>>
     \/ tweets = SeedTweets /\ users = SeedUsers /\ requests = SeedRequests
  /\ inaccessible_tweets = EmptyBag
  /\ now = StartClock
  /\ run = 1
  /\ API_LIMIT \in 0 .. MaxQ
  /\ pc = "start"
  /\ error = "none"
  /\ log = Log("Starting twitter scrape...")
  /\ ranked = <<>>
  /\ screen_names_to_collect = <<>>
  /\ idx = 1
  /\ last_scraped = EPOCH_1999
  /\ orphan_batches = <<>>
  /\ truncate_batches = <<>>
  /\ bidx = 1
  /\ lookups = 0
  /\ confirmed_missing = {}
  /\ requests_before = Len(requests)
  /\ faults = 0
  /\ twice = [pass |-> 1, rec |-> <<>>, snap |-> <<>>]
  /\ arg_tweets = <<>>
  /\ arg_overwrite = FALSE

\* The number of the fetch the loop is about to issue.
FetchNo == IF pc = "replies" THEN 2 * idx - 1 ELSE 2 * idx

LoopEnded == pc \in {"orphans", "crashed"}

PrioritizeOnce == Prioritize /\ UNCHANGED <<faults, twice, argVars>>

Record(resp) == twice' = [twice EXCEPT !.rec = Append(@, resp)]

RepliesFirst ==
  /\ pc = "replies" /\ twice.pass = 1
  /\ \E resp \in fetch_replies_from_user(clean_sn) :
       Answer(resp) /\ ReplyPhase(resp) /\ Record(resp)
  /\ UNCHANGED argVars

AtsFirst ==
  /\ pc = "ats" /\ twice.pass = 1
  /\ \E resp \in fetch_tweets_at_user(clean_sn, last_scraped) :
       Answer(resp) /\ AtsPhase(resp) /\ Record(resp)
  /\ UNCHANGED argVars

\* Start the loop again over the same screen names.
Rerun ==
  /\ twice.pass = 1
  /\ LoopEnded
  /\ twice' = [pass |-> 2, rec |-> twice.rec,
               snap |-> [tweets |-> tweets, users |-> users, requests |-> requests,
                         inaccessible_tweets |-> inaccessible_tweets]]
  /\ pc' = IF screen_names_to_collect = <<>> THEN "orphans" ELSE "replies"
  /\ idx' = 1
  /\ error' = "none"
  /\ log' = Log("Starting twitter scrape...")
  /\ now' = now + 1
  /\ UNCHANGED <<dbVars, run, API_LIMIT, ranked, screen_names_to_collect, last_scraped,
                 orphan_batches, truncate_batches, bidx, lookups, confirmed_missing,
                 requests_before, faults, argVars>>

RepliesAgain ==
  /\ pc = "replies" /\ twice.pass = 2
  /\ FetchNo <= Len(twice.rec)
  /\ ReplyPhase(twice.rec[FetchNo])
  /\ UNCHANGED <<faults, twice, argVars>>

AtsAgain ==
  /\ pc = "ats" /\ twice.pass = 2
  /\ FetchNo <= Len(twice.rec)
  /\ AtsPhase(twice.rec[FetchNo])
  /\ UNCHANGED <<faults, twice, argVars>>

NextTwice ==
  \/ PrioritizeOnce
  \/ RepliesFirst
  \/ AtsFirst
  \/ Rerun
  \/ RepliesAgain
  \/ AtsAgain

SpecTwice == InitTwice /\ [][NextTwice]_vars

\* ------------------------------------------------------------------------
\* prioritize_by_uncollected on its own: main() up to its ranking, started
\* on a store that earlier runs have left.  The request rows name the
\* monitored accounts or "c", an account that was monitored once.
\* ------------------------------------------------------------------------
HistoryNames == {"a", "b", "c"}

\* Request rows as save_request appends them, one tick apart.
HistoryOf(names) ==
  [k \in 1 .. Len(names) |->
     [screen_name |-> names[k], kind |-> "get_replies",
      created_at |-> StartClock - MaxHistory - 1 + k]]

Histories == {HistoryOf(names) : names \in SeqsUpTo(HistoryNames, MaxHistory)}

StoredTweets ==
  {SetToBag(S) : S \in SUBSET {tweet_to_record(Status(2, "full", "p1")),
                               tweet_to_record(Status(3, "full", "p1")),
                               tweet_to_record(Status(4, "full", "p1"))}}

InitRank ==
  /\ tweets \in StoredTweets
  /\ users = EmptyBag
  /\ requests \in Histories
  /\ inaccessible_tweets = EmptyBag
  /\ now = StartClock
  /\ run = 1
  /\ API_LIMIT \in 0 .. MaxQ
  /\ pc = "start"
  /\ error = "none"
  /\ log = Log("Starting twitter scrape...")
  /\ ranked = <<>>
  /\ screen_names_to_collect = <<>>
  /\ idx = 1
  /\ last_scraped = EPOCH_1999
  /\ orphan_batches = <<>>
  /\ truncate_batches = <<>>
  /\ bidx = 1
  /\ lookups = 0
  /\ confirmed_missing = {}
  /\ requests_before = Len(requests)
  /\ faults = 0
  /\ twice = [pass |-> 0, rec |-> <<>>, snap |-> <<>>]
  /\ arg_tweets = <<>>
  /\ arg_overwrite = FALSE

NextRank == Prioritize /\ UNCHANGED <<faults, twice, argVars>>

SpecRank == InitRank /\ [][NextRank]_vars

\* ------------------------------------------------------------------------
\* save_tweets on its own: one call on any list of statuses, on an empty
\* store or on one that holds tweets and users already.
\* ------------------------------------------------------------------------
SaveStatuses ==
  {Status(id, text, profile) :
     id \in {1, 2, 4}, text \in {"full", "bad"}, profile \in {"p1", "p2", "bad"}}

InitSave ==
  /\ \/ tweets = EmptyBag /\ users = EmptyBag
     \/ tweets = SeedTweets /\ users = SeedUsers
  /\ requests = <<>>
  /\ inaccessible_tweets = EmptyBag
  /\ now = StartClock
  /\ run = 1
  /\ API_LIMIT = 0
  /\ pc = "save"
  /\ error = "none"
  /\ log = Log("Saving tweets...")
  /\ ranked = <<>>
  /\ screen_names_to_collect = <<>>
  /\ idx = 1
  /\ last_scraped = EPOCH_1999
  /\ orphan_batches = <<>>
  /\ truncate_batches = <<>>
  /\ bidx = 1
  /\ lookups = 0
  /\ confirmed_missing = {}
  /\ requests_before = 0
  /\ faults = 0
  /\ twice = [pass |-> 0, rec |-> <<>>, snap |-> <<>>]
  /\ arg_tweets \in SeqsUpTo(SaveStatuses, MaxSave)
  /\ arg_overwrite \in BOOLEAN

\* db.save_tweets(arg_tweets, overwrite=arg_overwrite); an exception it
\* raises ends the caller.
SaveTweets ==
  /\ pc = "save"
  /\ LET saved == save_tweets(tweets, users, arg_tweets, arg_overwrite)
     IN  /\ tweets' = saved.tweets
         /\ users' = saved.users
         /\ error' = saved.error
         /\ pc' = IF saved.error = "none" THEN "saved" ELSE "crashed"
  /\ UNCHANGED <<requests, inaccessible_tweets, now, run, API_LIMIT, log, ranked,
                 screen_names_to_collect, idx, last_scraped, orphan_batches,
                 truncate_batches, bidx, lookups, confirmed_missing, requests_before,
                 faults, twice, argVars>>

SpecSave == InitSave /\ [][SaveTweets]_vars

\* ------------------------------------------------------------------------
\* The orphan resolution of main.py 67-78 on stores an earlier collection
\* left: some of the replies 2, 3 and 5 (parents 1, 4 and 6), none of the
\* parents, and possibly a marker of an earlier run.  Three candidates make
\* two batches.
\* ------------------------------------------------------------------------
StoredReplies ==
  {SetToBag(S) : S \in SUBSET {tweet_to_record(Status(2, "full", "p1")),
                               tweet_to_record(Status(3, "full", "p1")),
                               tweet_to_record(Status(5, "full", "p1"))}}

StoredMarkers == {EmptyBag, SetToBag({4}), SetToBag({6})}

InitOrphan ==
  /\ tweets \in StoredReplies
  /\ users = SetToBag({user_to_record(StatusUser(r.data)) : r \in Rows(tweets)})
  /\ requests = SeedRequests
  /\ inaccessible_tweets \in StoredMarkers
  /\ now = StartClock
  /\ run = 1
  /\ API_LIMIT = 0
  /\ pc = "orphans"
  /\ error = "none"
  /\ log = Log("Collecting the following screen names")
  /\ ranked = MONITORED_SCREEN_NAMES
  /\ screen_names_to_collect = <<>>
  /\ idx = 1
  /\ last_scraped = EPOCH_1999
  /\ orphan_batches = <<>>
  /\ truncate_batches = <<>>
  /\ bidx = 1
  /\ lookups = 0
  /\ confirmed_missing = {}
  /\ requests_before = Len(requests)
  /\ faults = 0
  /\ twice = [pass |-> 0, rec |-> <<>>, snap |-> <<>>]
  /\ arg_tweets = <<>>
  /\ arg_overwrite = FALSE

NextOrphan ==
  \/ GetOrphans /\ UNCHANGED <<faults, twice, argVars>>
  \/ Orphans

SpecOrphan == InitOrphan /\ [][NextOrphan]_vars

\* ------------------------------------------------------------------------
\* Properties
\* ------------------------------------------------------------------------
HasRow(table, id) == \E r \in Rows(table) : r.status_id = id

RequestRows(screen_name, kind) ==
  {k \in 1 .. Len(requests) :
     requests[k].screen_name = screen_name /\ requests[k].kind = kind}

\* C1 (under SpecTwice): the second pass over the same screen names with
\* the same upstream responses meets every fetch of the first pass again
\* and changes neither the stored messages nor the stored accounts nor the
\* markers; the request rows of the first pass stay and only new request
\* rows are appended.
C1_IdempotentIngestion ==
  twice.pass = 2 =>
    /\ pc \in {"replies", "ats"} => FetchNo <= Len(twice.rec)
    /\ tweets = twice.snap.tweets
    /\ users = twice.snap.users
    /\ inaccessible_tweets = twice.snap.inaccessible_tweets
    /\ Len(requests) >= Len(twice.snap.requests)
    /\ SubSeq(requests, 1, Len(twice.snap.requests)) = twice.snap.requests

\* The second pass is over; the first one stored messages that were not
\* there before, and the second one appended request rows.
C1_Witness ==
  /\ twice.pass = 2
  /\ pc = "orphans"
  /\ HasRow(tweets, 3) /\ HasRow(tweets, 4)
  /\ Len(requests) > Len(twice.snap.requests)

\* C2: no two rows of tweets share a status_id.
C2_UniqueMessageIds ==
  \A r \in Rows(tweets) :
    /\ tweets[r] = 1
    /\ \A q \in Rows(tweets) : q.status_id = r.status_id => q = r

\* A repair batch has just upserted a returned status over its stored row.
C2_Witness ==
  /\ pc = "truncate_loop"
  /\ log.msg = "Saving tweets..."
  /\ \E k \in DOMAIN log.looked_up : HasRow(tweets, log.looked_up[k].id)

\* C3: from the ranking on, the screen names to collect are exactly the
\* first min(API_LIMIT, length) entries of the ranked list, the loop never
\* stands beyond them, it has gone through all of them once it is left,
\* and every request row of the run belongs to one of them.
C3_QuotaEnforced ==
  pc # "start" =>
    LET quota == Min(API_LIMIT, Len(ranked))
    IN  /\ screen_names_to_collect = SubSeq(ranked, 1, quota)
        /\ Len(screen_names_to_collect) <= API_LIMIT
        /\ pc \in {"replies", "ats"} => idx \in 1 .. quota
        /\ pc = "crashed" => idx <= quota + 1
        /\ pc \notin {"replies", "ats", "crashed"} => idx = quota + 1
        /\ \A k \in requests_before + 1 .. Len(requests) :
             \E j \in 1 .. quota : j <= idx /\ requests[k].screen_name = ranked[j]

\* The quota is smaller than the ranked list, the loop is over, and it
\* processed exactly API_LIMIT accounts, two request rows each.
C3_Witness ==
  /\ pc = "orphan_loop"
  /\ API_LIMIT = 1
  /\ Len(ranked) = 2
  /\ idx = 2
  /\ Len(requests) = requests_before + 2

\* C4: a step of the replies phase whose fetch raised leaves the run alive
\* at the mentions phase of the same account; a step of the mentions phase
\* whose fetch raised leaves the run alive at the next account, or at
\* orphan resolution after the last account.
C4_PhaseFailureIsolated ==
  [][/\ (pc = "replies" /\ log'.raised) =>
          (pc' = "ats" /\ idx' = idx /\ error' = "none")
     /\ (pc = "ats" /\ log'.raised) =>
          /\ error' = "none"
          /\ idx' = idx + 1
          /\ pc' = IF idx < Len(screen_names_to_collect) THEN "replies" ELSE "orphans"]_vars

\* The replies fetch of the first account raised (it left no request row),
\* its mentions phase and both phases of the next account went through,
\* and the run stands in orphan resolution.
C4_Witness ==
  /\ run = 1
  /\ pc = "orphan_loop"
  /\ screen_names_to_collect = <<"a", "b">>
  /\ RequestRows("a", "get_replies") = {}
  /\ RequestRows("a", "get_ats") # {}
  /\ RequestRows("b", "get_replies") # {}
  /\ RequestRows("b", "get_ats") # {}

\* C5: no run is ended by a TwitterError.
C5_UpstreamErrorNeverFatal == ~ (pc = "crashed" /\ error = "TwitterError")

\* C6: no id that an orphan lookup once did not return is a candidate of
\* orphan resolution again.
C6_NeverRetried ==
  pc = "orphan_loop" =>
    \A k \in bidx .. Len(orphan_batches) :
      Range(orphan_batches[k]) \cap confirmed_missing = {}

ReturnedStatus(statuses, id) == CHOOSE t \in Range(statuses) : t.id = id

\* C7: after a repair batch whose lookup returned, every id of the batch
\* that the lookup did not return has no row, and every id it returned has
\* a row that carries the returned payload, which is not flagged truncated
\* when the returned payload is the full one.
C7_RepairReconciles ==
  [][(pc = "truncate_loop" /\ lookups' = lookups + 1 /\ ~ log'.raised) =>
       \A id \in Range(truncate_batches[bidx]) :
         IF id \in StatusIdsOf(log'.looked_up)
         THEN \E r \in Rows(tweets') :
                /\ r.status_id = id
                /\ r.data = ReturnedStatus(log'.looked_up, id)
                /\ ReturnedStatus(log'.looked_up, id).text = "full" =>
                     r.data.text # "trunc"
         ELSE ~ HasRow(tweets', id)]_vars

\* C8: every batch holds at most BatchSize ids, orphan resolution has at
\* most MaxBatches batches, the repair phase at most MaxBatches minus the
\* orphan batches (which is not negative), and a run issues at most
\* MaxBatches lookups.
C8_SharedBatchBudget ==
  /\ \A k \in DOMAIN orphan_batches : Len(orphan_batches[k]) \in 1 .. BatchSize
  /\ \A k \in DOMAIN truncate_batches : Len(truncate_batches[k]) \in 1 .. BatchSize
  /\ Len(orphan_batches) <= MaxBatches
  /\ MaxBatches - Len(orphan_batches) >= 0
  /\ Len(truncate_batches) <= MaxBatches - Len(orphan_batches)
  /\ lookups <= MaxBatches

\* Orphan resolution used a part of the budget, the repair phase got the
\* rest and has used it up, and more truncated tweets are stored than the
\* repair batches could hold.
C8_Witness ==
  /\ pc = "truncate_loop"
  /\ orphan_batches # <<>>
  /\ truncate_batches # <<>>
  /\ Len(orphan_batches) + Len(truncate_batches) = MaxBatches
  /\ bidx > Len(truncate_batches)
  /\ lookups = MaxBatches
  /\ Cardinality({r \in Rows(tweets) : r.data.text = "trunc"}) >
       BatchSize * Len(truncate_batches)

\* C9: the step of the repair loop whose lookup raised ends the run
\* normally with batches left over or not, and leaves all four tables as
\* they were.
C9_RepairFailureContained ==
  [][(pc = "truncate_loop" /\ log'.raised) =>
       (pc' = "done" /\ error' = "none" /\ UNCHANGED dbVars)]_vars

\* A run is done after the lookup of its first repair batch raised: a
\* second batch is left over, and the tweets and request rows that the
\* collection loop wrote are there.
C9_Witness ==
  /\ pc = "done"
  /\ log.raised
  /\ bidx = 1
  /\ Len(truncate_batches) = 2
  /\ requests # <<>>
  /\ tweets # EmptyBag

\* The weight of C10: scrape_age * daily_rate, the daily rate being
\* tweet_count / (tweet_period + 0.0001) and 0 without a tweet of the week.
Weight(tw, reqs, sn, at) ==
  IF RecentTweets(tw, sn, at) = {} THEN [num |-> 0, den |-> 1]
  ELSE [num |-> scrape_age(reqs, sn) * tweet_count(tw, sn, at) * EPS_INV,
        den |-> EPS_INV * tweet_period(tw, sn, at) + 1]

Heavier(x, y) == x.num * y.den > y.num * x.den

HasHistory(sn) == \E k \in 1 .. Len(requests) : requests[k].screen_name = sn

\* C10: in the ranking just returned, no account with fetch history stands
\* behind an account with fetch history of strictly smaller weight.
C10_RankedByWeight ==
  log.msg = "Collecting the following screen names" =>
    \A i, j \in DOMAIN ranked :
      (i < j /\ HasHistory(ranked[i]) /\ HasHistory(ranked[j])) =>
        ~ Heavier(Weight(tweets, requests, ranked[j], now - 1),
                  Weight(tweets, requests, ranked[i], now - 1))

Ranked == log.msg = "Collecting the following screen names"

NeverFetched == SelectSeq(MONITORED_SCREEN_NAMES, LAMBDA sn : ~ HasHistory(sn))

\* C11 (under SpecRank): every monitored account without a request row is
\* in the ranking, ahead of every account that has request rows.
C11_NeverFetchedFirst ==
  Ranked =>
    \A k \in DOMAIN NeverFetched :
      \E i \in DOMAIN ranked :
        /\ ranked[i] = NeverFetched[k]
        /\ \A j \in DOMAIN ranked : HasHistory(ranked[j]) => i < j

\* Account b was never fetched, a and c were, a with stored tweets of the
\* last week; b is ranked first of the three.
C11_Witness ==
  /\ Ranked
  /\ ~ HasHistory("b") /\ HasHistory("a") /\ HasHistory("c")
  /\ RecentTweets(tweets, "a", now - 1) # {}
  /\ Len(ranked) = 3
  /\ ranked[1] = "b"

\* C12 as stated (under SpecRank): the accounts of the input that the
\* scorer's query does not return stand after all scored accounts, in
\* their input order.
C12_UnfoundAfterScored ==
  Ranked =>
    /\ \A i, j \in DOMAIN ranked :
         (~ HasHistory(ranked[i]) /\ HasHistory(ranked[j])) => j < i
    /\ SelectSeq(ranked, LAMBDA sn : ~ HasHistory(sn)) = NeverFetched

\* C12 amended (under SpecRank): the accounts of the input that the
\* scorer's query does not return stand before all scored accounts, in
\* their input order.
C12_UnfoundBeforeScored ==
  Ranked =>
    /\ Len(ranked) >= Len(NeverFetched)
    /\ SubSeq(ranked, 1, Len(NeverFetched)) = NeverFetched
    /\ \A j \in Len(NeverFetched) + 1 .. Len(ranked) : HasHistory(ranked[j])

\* Only c has request rows: both monitored accounts are not found and
\* stand, in their input order, before c.
C12_Witness ==
  /\ Ranked
  /\ NeverFetched = MONITORED_SCREEN_NAMES
  /\ ranked = MONITORED_SCREEN_NAMES \o <<"c">>

\* C20 (under SpecRank): the ranking holds every monitored screen name
\* once and no other screen name.
C20_RankingIsPermutation ==
  Ranked =>
    /\ Len(ranked) = Len(MONITORED_SCREEN_NAMES)
    /\ Range(ranked) = Range(MONITORED_SCREEN_NAMES)

LastRequest == [screen_name |-> requests[Len(requests)].screen_name,
                kind |-> requests[Len(requests)].kind]

\* C13: the loop starts at the first ranked account; a step of the
\* replies phase is followed by the mentions phase of the same account, a
\* step of the mentions phase by the replies phase of the next account or
\* by the end of the loop; the fetch of a step is that of the account the
\* loop stands at in the ranked list, in the step's phase.
C13_ProcessingOrder ==
  [][/\ pc' = "replies" =>
          \/ pc = "start" /\ idx' = 1
          \/ pc = "ats" /\ idx' = idx + 1
     /\ pc' = "ats" => (pc = "replies" /\ idx' = idx)
     /\ pc = "replies" =>
          /\ pc' \in {"ats", "crashed"}
          /\ requests' # requests =>
               /\ Len(requests') = Len(requests) + 1
               /\ LastRequest' = [screen_name |-> ranked[idx], kind |-> "get_replies"]
     /\ pc = "ats" =>
          /\ pc' \in {"replies", "orphans", "crashed"}
          /\ requests' # requests =>
               /\ Len(requests') = Len(requests) + 1
               /\ LastRequest' = [screen_name |-> ranked[idx], kind |-> "get_ats"]]_vars

\* The loop has gone through two accounts without a failure: the request
\* rows of the run are those of the first ranked account, replies then
\* mentions, and then those of the second.
C13_Witness ==
  /\ pc = "orphans"
  /\ Len(ranked) = 2
  /\ Len(requests) = requests_before + 4
  /\ \A k \in 1 .. 4 :
       /\ requests[requests_before + k].screen_name = ranked[(k + 1) \div 2]
       /\ requests[requests_before + k].kind =
            (IF k % 2 = 1 THEN "get_replies" ELSE "get_ats")

\* The store rejects the status: its own record or its author's.
Rejected(t) == MalformedTweet(tweet_to_record(t))

UserRow(table, user_id) == CHOOSE r \in Rows(table) : r.user_id = user_id

TweetRow(table, id) == CHOOSE r \in Rows(table) : r.status_id = id

\* The last status of the list with this id, and the user of the last
\* status of the list by this author.
LastStatus(s, id) == s[SetMax({k \in DOMAIN s : s[k].id = id})]

LastUser(s, user_id) ==
  StatusUser(s[SetMax({k \in DOMAIN s : StatusUser(s[k]).id = user_id})])

\* C14 (under SpecSave): a call of save_tweets on a list with exactly one
\* status the store rejects does not raise; every other status of the list
\* and its author have a row afterwards, and the rejected payload has none.
C14_BatchFallback ==
  (pc # "save" /\ Cardinality({k \in DOMAIN arg_tweets : Rejected(arg_tweets[k])}) = 1) =>
    /\ error = "none"
    /\ \A k \in DOMAIN arg_tweets :
         IF Rejected(arg_tweets[k])
         THEN \A r \in Rows(tweets) : r.data # arg_tweets[k]
         ELSE /\ HasRow(tweets, arg_tweets[k].id)
              /\ \E r \in Rows(users) : r.user_id = StatusUser(arg_tweets[k]).id

\* C17 (under SpecSave): after a call of save_tweets that returned, every
\* author of the list whose account was stored with another profile than
\* that of the last status of the list by that author has exactly one row
\* in users, and it carries the profile of that last status.
C17_LastWriteWins ==
  [][(pc = "save" /\ error' = "none") =>
       \A k \in DOMAIN arg_tweets :
         LET uid == StatusUser(arg_tweets[k]).id
         IN  (\E r \in Rows(users) :
                r.user_id = uid /\ r.data # LastUser(arg_tweets, uid)) =>
               /\ Cardinality({r \in Rows(users') : r.user_id = uid}) = 1
               /\ users'[UserRow(users', uid)] = 1
               /\ UserRow(users', uid).data = LastUser(arg_tweets, uid)]_vars

\* C19 (under SpecSave): a call of save_tweets that returned wrote, for
\* every id of the list that it could write (one not stored before, or any
\* with overwrite), one row with the last status of the list with that id,
\* and for every author not stored before one row with the user of the
\* last status of the list by that author.
C19_DedupKeepsLast ==
  [][(pc = "save" /\ error' = "none") =>
       \A k \in DOMAIN arg_tweets :
         LET id == arg_tweets[k].id
             uid == StatusUser(arg_tweets[k]).id
         IN  /\ (arg_overwrite \/ ~ HasRow(tweets, id)) =>
                  /\ Cardinality({r \in Rows(tweets') : r.status_id = id}) = 1
                  /\ TweetRow(tweets', id).data = LastStatus(arg_tweets, id)
             /\ (~ \E r \in Rows(users) : r.user_id = uid) =>
                  /\ Cardinality({r \in Rows(users') : r.user_id = uid}) = 1
                  /\ UserRow(users', uid).data = LastUser(arg_tweets, uid)]_vars

\* ---------------------------------------------------------------------------
\* C15.  Whenever the fetch of a collection phase returns, the phase records
\* one request row for the account and the phase, stamped with the time of
\* the step, whatever the fetch returned: nothing at all, or only tweets
\* that are already stored.
PhaseKind == IF pc = "replies" THEN "get_replies" ELSE "get_ats"

FetchReturned == pc \in {"replies", "ats"} /\ ~ log'.raised

C15_AuditOnEmptyResult ==
  [][FetchReturned =>
       requests' = Append(requests, [screen_name |-> screen_names_to_collect[idx],
                                     kind |-> PhaseKind,
                                     created_at |-> now])]_vars

\* A phase whose fetch returned tweets, none of them new, left its row.
C15_Witness ==
  /\ log.msg \in {"Saving replies request...", "Saving ats request..."}
  /\ log.fetched > 0
  /\ log.saving = 0
  /\ Len(requests) > requests_before
  /\ requests[Len(requests)].created_at = now - 1

\* ---------------------------------------------------------------------------
\* C16.  As the claim states it: once the loop of a run over its k accounts
\* has ended, the run has appended exactly 2k request rows.
RowsOfRun == Len(requests) - requests_before

LoopEnded_Run == pc \in {"orphans", "orphan_loop", "truncate_loop", "done"}

C16_ExactlyTwoPerAccount ==
  LoopEnded_Run => RowsOfRun = 2 * Len(screen_names_to_collect)

\* C16, amended.  A run appends one request row for each phase whose fetch
\* returned, none for a phase whose fetch raised, and no row anywhere else;
\* the rows of a run over k accounts are at most 2k.
C16_OneRowPerReturnedFetch ==
  [][/\ requests' = IF FetchReturned
                    THEN Append(requests, requests'[Len(requests')])
                    ELSE requests
     /\ pc' # "start" =>
          Len(requests') - requests_before' <= 2 * Len(screen_names_to_collect')]_vars

\* The loop over two accounts ended with three rows: one fetch raised.
C16_Witness ==
  /\ pc = "orphans"
  /\ Len(screen_names_to_collect) = 2
  /\ RowsOfRun = 3

\* ---------------------------------------------------------------------------
\* C18.  A stored tweet row is removed or has its payload replaced only by
\* the repair loop, and only when its id is in the batch the loop looked up:
\* removed when the lookup did not return the id, replaced by the returned
\* payload when it did.  Every other step keeps every stored row as it is.
C18_MessageLifecycleFrame ==
  [][\A r \in Rows(tweets) :
       \/ r \in Rows(tweets')
       \/ /\ pc = "truncate_loop"
          /\ ~ log'.raised
          /\ r.status_id \in Range(truncate_batches[bidx])
          /\ IF r.status_id \in StatusIdsOf(log'.looked_up)
             THEN \E q \in Rows(tweets') :
                    /\ q.status_id = r.status_id
                    /\ q.data = ReturnedStatus(log'.looked_up, r.status_id)
             ELSE ~ HasRow(tweets', r.status_id)]_vars

\* A repair batch removed one row and replaced another while a row outside
\* the batch stayed.
C18_Witness ==
  /\ pc = "truncate_loop"
  /\ error = "none"
  /\ log.missing > 0
  /\ log.saving > 0
  /\ bidx > 1
  /\ \E r \in Rows(tweets) : r.status_id \notin Range(truncate_batches[bidx - 1])

\* ---------------------------------------------------------------------------
\* C21.  When the mentions phase of an account is about to fetch, the since
\* bound it passes is the time of the newest request row of the account
\* among the rows that were there before the account's replies phase (the
\* 1999 default when there was none); the row the replies phase of this run
\* appended is newer than the bound and does not move it.
RepliesRowSaved == pc = "ats" /\ ~ log.raised

RequestsBeforeAccount ==
  IF RepliesRowSaved THEN SubSeq(requests, 1, Len(requests) - 1) ELSE requests

C21_LookbackFixedBeforeReplies ==
  pc = "ats" =>
    /\ last_scraped = last_scraped_at(RequestsBeforeAccount, screen_names_to_collect[idx])
    /\ RepliesRowSaved =>
         /\ requests[Len(requests)].screen_name = screen_names_to_collect[idx]
         /\ last_scraped < requests[Len(requests)].created_at

\* The account has a row of an earlier run, and the replies phase of this
\* run has appended its own, newer one.
C21_Witness ==
  /\ pc = "ats"
  /\ log.msg = "Saving replies request..."
  /\ last_scraped > EPOCH_1999
  /\ last_scraped < last_scraped_at(requests, screen_names_to_collect[idx])

\* ---------------------------------------------------------------------------
\* C22.  The orphan batches of a run share no id and hold no id twice, and
\* each batch is looked up once; when a batch has completed, each of its ids
\* is either stored as a tweet and not marked (the lookup returned it), or
\* marked inaccessible and not stored (it did not); the markers table never
\* holds an id twice.
BatchIds(batches) ==
  UNION {{<<i, j>> : j \in DOMAIN batches[i]} : i \in DOMAIN batches}

BatchesPartition(batches) ==
  \A p, q \in BatchIds(batches) :
    batches[p[1]][p[2]] = batches[q[1]][q[2]] => p = q

OrphanLookup == pc = "orphan_loop" /\ lookups' = lookups + 1

BatchCompleted == OrphanLookup /\ pc' = "orphan_loop"

C22_OrphanBatchesPartition ==
  [][/\ BatchesPartition(orphan_batches')
     /\ \A id \in Rows(inaccessible_tweets') : CopiesIn(id, inaccessible_tweets') = 1
     /\ OrphanLookup => (bidx' = bidx + 1 \/ pc' = "crashed")
     /\ BatchCompleted =>
          \A id \in Range(orphan_batches[bidx]) :
            IF id \in StatusIdsOf(log'.looked_up)
            THEN HasRow(tweets', id) /\ ~ BagIn(id, inaccessible_tweets')
            ELSE ~ HasRow(tweets', id) /\ BagIn(id, inaccessible_tweets')]_vars

\* Two batches have completed, with one id stored and another marked.
C22_Witness ==
  /\ pc = "orphan_loop"
  /\ Len(orphan_batches) = 2
  /\ bidx = 3
  /\ \E id \in Range(orphan_batches[1]) \cup Range(orphan_batches[2]) :
       HasRow(tweets, id) /\ ~ BagIn(id, inaccessible_tweets)
  /\ \E id \in Range(orphan_batches[1]) \cup Range(orphan_batches[2]) :
       ~ HasRow(tweets, id) /\ BagIn(id, inaccessible_tweets)

====
